---- MODULE Spec2Model ----
(***************************************************************************)
(* Deep-FLC dashboard: fuzzy inference engine, forecaster and simulation   *)
(* stepper of the richer variant (src/unnamed/part_000).                   *)
(*                                                                         *)
(* Numbers.  The program computes in IEEE doubles; the model computes in   *)
(* fixed point:                                                            *)
(*   - physical values (soc, soh, load, temp, histories) are integers in   *)
(*     units of 1/SCALE;                                                   *)
(*   - membership degrees and firing strengths are integers in units of    *)
(*     1/DEG;                                                              *)
(*   - CP, GP and the fields of an emitted point are integers in units of  *)
(*     1/CENTI (two decimals);                                             *)
(*   - cumulative energy is kept in watt-seconds times SCALE, i.e. in      *)
(*     units of 1/(JOULES_PER_KWH * SCALE) kWh.                            *)
(* Every division rounds to the nearest unit.                              *)
(***************************************************************************)
EXTENDS Integers, Sequences, FiniteSets, TLC

VARIABLES
    \* ---- React state of App (part_000:47-61) ----
    soc, soh, load, temp, time, series, mode, running,
    socHist, sohHist, loadHist, tempHist, mfDefs, energySeries,
    \* the interval timer of useEffect: NoTimer, or the render whose stepOnce it calls
    timer,
    \* the number of intervals set with setInterval and not cleared since
    intervals,
    \* bounding counters of the exploration (not program state)
    ticks, edits,
    \* the handler that ran last: "init", "tick", "control" (a slider or the mode
    \* select), "toggle", "updateMF" or "reset" (observation only)
    lastOp,
    \* the state of the simpler variant (src/src/App.jsx) when it is run side
    \* by side, [on |-> FALSE] otherwise
    simple,
    \* ---- MFChart data loop (part_000:262-272), one term ----
    chartDef, chartX, chartData,
    \* ---- rule base generation loops (part_000:86-143) ----
    idx, id, cons, rules, pc,
    \* ---- one call of inferFuzzy ----
    inferIn, inferOut,
    \* ---- one call of predictSeries ----
    predIn, predOut

simVars == <<soc, soh, load, temp, time, series, mode, running,
             socHist, sohHist, loadHist, tempHist, mfDefs, energySeries,
             timer, intervals, ticks, edits, lastOp, simple>>
chartVars == <<chartDef, chartX, chartData>>
genVars == <<idx, id, cons, rules, pc>>
inferVars == <<inferIn, inferOut>>
predVars == <<predIn, predOut>>
vars == <<simVars, chartVars, genVars, inferVars, predVars>>

----------------------------------------------------------------------------
(* Units *)
SCALE == 1800
DEG == 1000
CENTI == 100

Max(p, q) == IF p >= q THEN p ELSE q
Min(p, q) == IF p <= q THEN p ELSE q

\* n / d rounded to the nearest integer, d > 0
RoundDiv(n, d) == (2 * n + d) \div (2 * d)

\* Math.round(v * 100) / 100 of a value in 1/SCALE units, in 1/CENTI units
Round2(v) == RoundDiv(v * CENTI, SCALE)

----------------------------------------------------------------------------
(* triMF *)

\* the quotient num/den of two lengths (1/SCALE units) as a degree
Ratio(num, den) == RoundDiv(num * DEG, den)

triMFRisingShoulder(x, a, b, c) ==
    LET A == a * SCALE
        B == b * SCALE
        C == c * SCALE
    IN  IF b = a
        THEN IF x <= A THEN DEG
             ELSE IF x >= C THEN 0
             ELSE Ratio(x - A, C - A)
        ELSE IF b = c
        THEN IF x <= A THEN 0
             ELSE IF x >= C THEN DEG
             ELSE Ratio(x - A, B - A)
        ELSE IF x <= A THEN 0
        ELSE IF x >= C THEN 0
        ELSE IF x = B THEN DEG
        ELSE IF x > A /\ x < B THEN Ratio(x - A, B - A)
        ELSE IF x > B /\ x < C THEN Ratio(C - x, C - B)
        ELSE 0

triMFNoPeak(x, a, b, c) ==
    LET A == a * SCALE
        B == b * SCALE
        C == c * SCALE
    IN  IF b = a
        THEN IF x <= A THEN DEG
             ELSE IF x >= C THEN 0
             ELSE Ratio(C - x, C - A)
        ELSE IF b = c
        THEN IF x <= A THEN 0
             ELSE IF x >= C THEN DEG
             ELSE Ratio(x - A, B - A)
        ELSE IF x <= A THEN 0
        ELSE IF x >= C THEN 0
        ELSE IF x > A /\ x < B THEN Ratio(x - A, B - A)
        ELSE IF x > B /\ x < C THEN Ratio(C - x, C - B)
        ELSE 0

\* x in 1/SCALE units; a, b, c control points in whole units; result in 1/DEG
triMF(x, a, b, c) ==
    LET A == a * SCALE
        B == b * SCALE
        C == c * SCALE
    IN  IF b = a
        THEN IF x <= A THEN DEG
             ELSE IF x >= C THEN 0
             ELSE Ratio(C - x, C - A)
        ELSE IF b = c
        THEN IF x <= A THEN 0
             ELSE IF x >= C THEN DEG
             ELSE Ratio(x - A, B - A)
        ELSE IF x <= A THEN 0
        ELSE IF x >= C THEN 0
        ELSE IF x = B THEN DEG
        ELSE IF x > A /\ x < B THEN Ratio(x - A, B - A)
        ELSE IF x > B /\ x < C THEN Ratio(C - x, C - B)
        ELSE 0

defaultMFs ==
    [SOC |-> [Low |-> <<0, 0, 60>>, Medium |-> <<50, 75, 90>>, High |-> <<80, 100, 100>>],
     SOH |-> [Degraded |-> <<0, 0, 60>>, Normal |-> <<50, 75, 90>>, Good |-> <<80, 100, 100>>],
     Load |-> [Low |-> <<0, 0, 40>>, Medium |-> <<30, 50, 70>>, High |-> <<60, 100, 100>>],
     Temperature |-> [Low |-> <<0, 0, 20>>, Normal |-> <<15, 30, 45>>, High |-> <<40, 100, 100>>]]

SOC_TERMS == <<"Low", "Medium", "High">>
SOH_TERMS == <<"Degraded", "Normal", "Good">>
LOAD_TERMS == <<"Low", "Medium", "High">>
TEMP_TERMS == <<"Low", "Normal", "High">>
OUTPUT_CENTROIDS == [Low |-> 25, Medium |-> 50, High |-> 75]

\* fuzzifyInput(name, x) over the membership definitions defs
fuzzifyInput(defs, name, x) ==
    [term \in DOMAIN defs[name] |->
        triMF(x, defs[name][term][1], defs[name][term][2], defs[name][term][3])]

----------------------------------------------------------------------------
(* Rule base: the four nested loops of the generator *)

Baseline(SOCterm) ==
    IF SOCterm = "Low" THEN [CP |-> "Low", GP |-> "High"]
    ELSE IF SOCterm = "Medium" THEN [CP |-> "Medium", GP |-> "Medium"]
    ELSE [CP |-> "High", GP |-> "Low"]

StepDownCPOnly(c) ==
    [CP |-> IF c.CP = "High" THEN "Medium"
            ELSE IF c.CP = "Medium" THEN "Low" ELSE c.CP,
     GP |-> c.GP]

StepDownGPOnly(c) ==
    [CP |-> c.CP,
     GP |-> IF c.GP = "Low" THEN "Medium"
            ELSE IF c.GP = "Medium" THEN "High" ELSE c.GP]

\* the body shared by the three adjustment blocks
StepDown(c) ==
    [CP |-> IF c.CP = "High" THEN "Medium"
            ELSE IF c.CP = "Medium" THEN "Low" ELSE c.CP,
     GP |-> IF c.GP = "Low" THEN "Medium"
            ELSE IF c.GP = "Medium" THEN "High" ELSE c.GP]

AdjustSOH(SOHterm, c) == IF SOHterm = "Degraded" THEN StepDown(c) ELSE c
AdjustLoad(LOADterm, c) == IF LOADterm = "High" THEN StepDown(c) ELSE c
AdjustTemp(TEMPterm, c) == IF TEMPterm = "High" THEN StepDown(c) ELSE c

\* the loop counters are 0-based as in the source; sequences are 1-based
Antecedent(i) ==
    [SOC |-> SOC_TERMS[i.si + 1], SOH |-> SOH_TERMS[i.qi + 1],
     Load |-> LOAD_TERMS[i.li + 1], Temp |-> TEMP_TERMS[i.ti + 1]]

Consequent(i) ==
    LET a == Antecedent(i)
    IN  AdjustTemp(a.Temp, AdjustLoad(a.Load, AdjustSOH(a.SOH, Baseline(a.SOC))))

LoopStart == [si |-> 0, qi |-> 0, li |-> 0, ti |-> 0]

LoopNextLoadInnermost(i) ==
    IF i.li + 1 < Len(LOAD_TERMS) THEN [i EXCEPT !.li = @ + 1]
    ELSE IF i.ti + 1 < Len(TEMP_TERMS) THEN [i EXCEPT !.li = 0, !.ti = @ + 1]
    ELSE IF i.qi + 1 < Len(SOH_TERMS) THEN [i EXCEPT !.ti = 0, !.li = 0, !.qi = @ + 1]
    ELSE [i EXCEPT !.ti = 0, !.li = 0, !.qi = 0, !.si = @ + 1]

\* the counters after one pass of the innermost body: ti++ and the carries
\* of the enclosing for statements; si = Len(SOC_TERMS) when all loops ended
LoopNext(i) ==
    IF i.ti + 1 < Len(TEMP_TERMS) THEN [i EXCEPT !.ti = @ + 1]
    ELSE IF i.li + 1 < Len(LOAD_TERMS) THEN [i EXCEPT !.ti = 0, !.li = @ + 1]
    ELSE IF i.qi + 1 < Len(SOH_TERMS) THEN [i EXCEPT !.ti = 0, !.li = 0, !.qi = @ + 1]
    ELSE [i EXCEPT !.ti = 0, !.li = 0, !.qi = 0, !.si = @ + 1]

LoopDone(i) == ~(i.si < Len(SOC_TERMS))

MakeRule(n, i, c) == [id |-> n, antecedent |-> Antecedent(i), consequent |-> c]

\* the antecedent index tuples in the order the innermost body is reached:
\* one operator per for statement, the counter as last parameter
RECURSIVE ForTi(_, _, _, _)
ForTi(si, qi, li, ti) ==
    IF ~(ti < Len(TEMP_TERMS)) THEN <<>>
    ELSE <<[si |-> si, qi |-> qi, li |-> li, ti |-> ti]>> \o ForTi(si, qi, li, ti + 1)

RECURSIVE ForLi(_, _, _)
ForLi(si, qi, li) ==
    IF ~(li < Len(LOAD_TERMS)) THEN <<>>
    ELSE ForTi(si, qi, li, 0) \o ForLi(si, qi, li + 1)

RECURSIVE ForQi(_, _)
ForQi(si, qi) ==
    IF ~(qi < Len(SOH_TERMS)) THEN <<>>
    ELSE ForLi(si, qi, 0) \o ForQi(si, qi + 1)

RECURSIVE ForSi(_)
ForSi(si) ==
    IF ~(si < Len(SOC_TERMS)) THEN <<>>
    ELSE ForQi(si, 0) \o ForSi(si + 1)

\* id starts at 1 and is incremented at every push: the n-th rule pushed has id n
RULE_BASE ==
    LET order == ForSi(0)
    IN  [n \in 1..Len(order) |-> MakeRule(n, order[n], Consequent(order[n]))]

----------------------------------------------------------------------------
(* Inference *)

FiringMax(r, f) ==
    Max(Max(f.fSOC[r.antecedent.SOC], f.fSOH[r.antecedent.SOH]),
        Max(f.fLoad[r.antecedent.Load], f.fTemp[r.antecedent.Temp]))

Firing(r, f) ==
    Min(Min(f.fSOC[r.antecedent.SOC], f.fSOH[r.antecedent.SOH]),
        Min(f.fLoad[r.antecedent.Load], f.fTemp[r.antecedent.Temp]))

\* what one pass of the for loop adds to the four accumulators
Contribution(r, f) ==
    LET firing == Firing(r, f)
    IN  IF firing <= 0
        THEN [cpNumer |-> 0, cpDenom |-> 0, gpNumer |-> 0, gpDenom |-> 0]
        ELSE [cpNumer |-> firing * OUTPUT_CENTROIDS[r.consequent.CP],
              cpDenom |-> firing,
              gpNumer |-> firing * OUTPUT_CENTROIDS[r.consequent.GP],
              gpDenom |-> firing]

\* the accumulators summed over rules lo..hi (integer sums: the order of
\* addition does not matter, so the range is halved to keep the nesting shallow)
RECURSIVE Accumulate(_, _, _)
Accumulate(f, lo, hi) ==
    IF lo = hi THEN Contribution(RULE_BASE[lo], f)
    ELSE LET mid == (lo + hi) \div 2
             l == Accumulate(f, lo, mid)
             h == Accumulate(f, mid + 1, hi)
         IN  [cpNumer |-> l.cpNumer + h.cpNumer, cpDenom |-> l.cpDenom + h.cpDenom,
              gpNumer |-> l.gpNumer + h.gpNumer, gpDenom |-> l.gpDenom + h.gpDenom]

inferFuzzyZeroFallback(defs, SOC, SOH, Load, Temp) ==
    LET f == [fSOC |-> fuzzifyInput(defs, "SOC", SOC),
              fSOH |-> fuzzifyInput(defs, "SOH", SOH),
              fLoad |-> fuzzifyInput(defs, "Load", Load),
              fTemp |-> fuzzifyInput(defs, "Temperature", Temp)]
        acc == Accumulate(f, 1, Len(RULE_BASE))
    IN  [CP |-> IF acc.cpDenom > 0 THEN RoundDiv(acc.cpNumer * CENTI, acc.cpDenom)
                ELSE 0,
         GP |-> IF acc.gpDenom > 0 THEN RoundDiv(acc.gpNumer * CENTI, acc.gpDenom)
                ELSE 0,
         memberships |-> f]

\* CP and GP in 1/CENTI units
inferFuzzy(defs, SOC, SOH, Load, Temp) ==
    LET f == [fSOC |-> fuzzifyInput(defs, "SOC", SOC),
              fSOH |-> fuzzifyInput(defs, "SOH", SOH),
              fLoad |-> fuzzifyInput(defs, "Load", Load),
              fTemp |-> fuzzifyInput(defs, "Temperature", Temp)]
        acc == Accumulate(f, 1, Len(RULE_BASE))
    IN  [CP |-> IF acc.cpDenom > 0 THEN RoundDiv(acc.cpNumer * CENTI, acc.cpDenom)
                ELSE 50 * CENTI,
         GP |-> IF acc.gpDenom > 0 THEN RoundDiv(acc.gpNumer * CENTI, acc.gpDenom)
                ELSE 50 * CENTI,
         memberships |-> f]

----------------------------------------------------------------------------
(* Forecaster *)

\* alpha = 0.2, in percent
ALPHA_PCT == 20

BlendSwapped(h, last) == RoundDiv((100 - ALPHA_PCT) * h + ALPHA_PCT * last, 100)

Blend(h, last) == RoundDiv(ALPHA_PCT * h + (100 - ALPHA_PCT) * last, 100)

\* the loop for (i = history.length - 2; i >= 0; i--), i 1-based here.  It is
\* run in blocks of BLOCK iterations, and each new value of last is bound (as
\* the element of a singleton) before the loop goes on, so that the evaluation
\* stays shallow on histories of 200 values.
BLOCK == 16

RECURSIVE SmoothBlock(_, _, _, _)
SmoothBlock(history, i, stop, last) ==
    IF i < stop THEN last
    ELSE CHOOSE r \in {SmoothBlock(history, i - 1, stop, v) :
                          v \in {Blend(history[i], last)}} : TRUE

RECURSIVE Smooth(_, _, _)
Smooth(history, i, last) ==
    IF i < 1 THEN last
    ELSE CHOOSE r \in {Smooth(history, i - BLOCK, v) :
                          v \in {SmoothBlock(history, i, Max(1, i - BLOCK + 1), last)}} : TRUE

predictSeries(history, steps) ==
    IF Len(history) = 0 THEN [k \in 1..steps |-> 50 * SCALE]
    ELSE LET last == Smooth(history, Len(history) - 1, history[Len(history)])
         IN  [k \in 1..steps |-> Max(0, Min(100 * SCALE, last))]

----------------------------------------------------------------------------
(* Simulation: App state, the interval timer and stepOnce *)

\* exploration bounds
MaxTicks == 2
MaxEdits == 3
MaxMFEdits == 1

\* values the controls are moved to (whole units)
SOC_INPUTS == {100}
SOH_INPUTS == {40}
LOAD_INPUTS == {100}
TEMP_INPUTS == {100}
MODES == {"conventional", "deep"}
\* membership-function edits: <<variable, term, index, value>>
MF_EDITS == {<<"SOC", "Low", 2, 50>>, <<"SOC", "Medium", 0, 40>>}

\* s.slice(-199)
KEEP == 199
SliceKeepsOneMore(s) == IF Len(s) > KEEP + 1 THEN SubSeq(s, Len(s) - KEEP, Len(s)) ELSE s

Slice(s) == IF Len(s) > KEEP THEN SubSeq(s, Len(s) - KEEP + 1, Len(s)) ELSE s

NoTimer == [active |-> FALSE]

\* what the functions created by the current render close over
Render ==
    [active |-> TRUE, time |-> time, soc |-> soc, soh |-> soh, load |-> load,
     temp |-> temp, mode |-> mode, socHist |-> socHist, sohHist |-> sohHist,
     loadHist |-> loadHist, tempHist |-> tempHist, mfDefs |-> mfDefs,
     energySeries |-> energySeries]

\* the dependency list of useEffect
Deps == <<running, soc, soh, load, temp, mode, mfDefs>>

useEffectWithoutMfDefs ==
    IF <<running, soc, soh, load, temp, mode>>' = <<running, soc, soh, load, temp, mode>>
    THEN timer
    ELSE IF running' THEN Render' ELSE NoTimer

intervalsWithoutCleanup ==
    IF Deps' = Deps THEN intervals
    ELSE intervals + (IF running' THEN 1 ELSE 0)

\* the intervals left by the effect: when it re-runs, the cleanup of the
\* previous run clears the interval that run had set (if any) and the new run
\* sets one when running
intervalsAfterEffect ==
    IF Deps' = Deps THEN intervals
    ELSE intervals - (IF timer.active THEN 1 ELSE 0) + (IF running' THEN 1 ELSE 0)

\* the effect after a render: re-run (clear the interval, set a new one on the
\* new render's stepOnce when running) only when a dependency changed
useEffect ==
    IF Deps' = Deps THEN timer
    ELSE IF running' THEN Render' ELSE NoTimer

batteryCapacityWh == 16200
pvToBat == 200
powerFromGrid == 200
\* (useLoad / 100) * 5 * 1000 W
LOAD_POWER_PER_UNIT == 50
OWN_COVER_W == 1000
\* the divisor 3600000 of the energy increment: the unit of energy values
JOULES_PER_KWH == 3600000

newSOHOf(sohNow) == Max(40 * SCALE, sohNow - SCALE \div 200)
newSOCHalfStep(socNow, deltaSOC) == Max(0, Min(100 * SCALE, socNow + deltaSOC \div 2))

newSOCNoUpperClamp(socNow, deltaSOC) == Max(0, socNow + deltaSOC)

newSOCOf(socNow, deltaSOC) == Max(0, Min(100 * SCALE, socNow + deltaSOC))
newTempOf(tempNow, useLoad) == Max(0, Min(100 * SCALE, tempNow + RoundDiv(useLoad, 100)))

\* deltaEnergy of one tick times JOULES_PER_KWH (deltaT = 1)
deltaEnergy(useLoad) ==
    LET loadPower == useLoad * LOAD_POWER_PER_UNIT
        batToLoadPower == Max(0, loadPower - OWN_COVER_W * SCALE)
    IN  powerFromGrid * SCALE + batToLoadPower

lastEnergyOf(es) == IF Len(es) # 0 THEN es[Len(es)].energy ELSE 0

OverridesLoadFirst(o, useSOH, useLoad, useTemp) ==
    LET o1 == IF useLoad > 80 * SCALE
              THEN [o EXCEPT !.CP = Min(o.CP + 10 * CENTI, 75 * CENTI)]
              ELSE o
        o2 == IF useTemp > 60 * SCALE
              THEN [CP |-> Max(o1.CP - 10 * CENTI, 20 * CENTI),
                    GP |-> Min(o1.GP + 10 * CENTI, 80 * CENTI)]
              ELSE o1
    IN  IF useSOH < 50 * SCALE
        THEN [CP |-> Max(o2.CP - 15 * CENTI, 15 * CENTI),
              GP |-> Min(o2.GP + 15 * CENTI, 85 * CENTI)]
        ELSE o2

\* the heuristic overrides, o = [CP, GP] in 1/CENTI
Overrides(o, useSOH, useLoad, useTemp) ==
    LET o1 == IF useTemp > 60 * SCALE
              THEN [CP |-> Max(o.CP - 10 * CENTI, 20 * CENTI),
                    GP |-> Min(o.GP + 10 * CENTI, 80 * CENTI)]
              ELSE o
        o2 == IF useSOH < 50 * SCALE
              THEN [CP |-> Max(o1.CP - 15 * CENTI, 15 * CENTI),
                    GP |-> Min(o1.GP + 15 * CENTI, 85 * CENTI)]
              ELSE o1
    IN  IF useLoad > 80 * SCALE
        THEN [o2 EXCEPT !.CP = Min(o2.CP + 10 * CENTI, 75 * CENTI)]
        ELSE o2

stepOnceSliderLoad(c) ==
    LET t == c.time + 1
        deep == c.mode = "deep"
        useSOC == IF deep THEN predictSeries(c.socHist, 1)[1] ELSE c.soc
        useSOH == IF deep THEN predictSeries(c.sohHist, 1)[1] ELSE c.soh
        useLoad == c.load
        useTemp == IF deep THEN predictSeries(c.tempHist, 1)[1] ELSE c.temp
        inference == inferFuzzy(c.mfDefs, useSOC, useSOH, useLoad, useTemp)
        out == Overrides([CP |-> inference.CP, GP |-> inference.GP],
                         useSOH, useLoad, useTemp)
        batToLoad == RoundDiv(Max(0, useLoad - 100 * SCALE), 10)
        deltaSOC == RoundDiv((pvToBat * SCALE - batToLoad) * 90, batteryCapacityWh)
        newSOC == newSOCOf(c.soc, deltaSOC)
        newTemp == newTempOf(c.temp, useLoad)
        newSOH == newSOHOf(c.soh)
    IN  [t |-> t, newSOC |-> newSOC, newTemp |-> newTemp, newSOH |-> newSOH,
         useLoad |-> useLoad,
         inference |-> [SOC |-> useSOC, SOH |-> useSOH, Load |-> useLoad,
                        Temp |-> useTemp, CP |-> inference.CP, GP |-> inference.GP],
         point |-> [time |-> t, SOC |-> Round2(newSOC), SOH |-> Round2(newSOH),
                    Load |-> Round2(useLoad), Temperature |-> Round2(newTemp),
                    CP |-> out.CP, GP |-> out.GP, mode |-> c.mode],
         energyPoint |-> [time |-> t,
                          energy |-> lastEnergyOf(c.energySeries) + deltaEnergy(useLoad)]]

\* everything stepOnce computes from the render c it belongs to
stepOnce(c) ==
    LET t == c.time + 1
        deep == c.mode = "deep"
        useSOC == IF deep THEN predictSeries(c.socHist, 1)[1] ELSE c.soc
        useSOH == IF deep THEN predictSeries(c.sohHist, 1)[1] ELSE c.soh
        useLoad == IF deep THEN predictSeries(c.loadHist, 1)[1] ELSE c.load
        useTemp == IF deep THEN predictSeries(c.tempHist, 1)[1] ELSE c.temp
        inference == inferFuzzy(c.mfDefs, useSOC, useSOH, useLoad, useTemp)
        out == Overrides([CP |-> inference.CP, GP |-> inference.GP],
                         useSOH, useLoad, useTemp)
        batToLoad == RoundDiv(Max(0, useLoad - 100 * SCALE), 10)
        deltaSOC == RoundDiv((pvToBat * SCALE - batToLoad) * 90, batteryCapacityWh)
        newSOC == newSOCOf(c.soc, deltaSOC)
        newTemp == newTempOf(c.temp, useLoad)
        newSOH == newSOHOf(c.soh)
    IN  [t |-> t, newSOC |-> newSOC, newTemp |-> newTemp, newSOH |-> newSOH,
         useLoad |-> useLoad,
         inference |-> [SOC |-> useSOC, SOH |-> useSOH, Load |-> useLoad,
                        Temp |-> useTemp, CP |-> inference.CP, GP |-> inference.GP],
         point |-> [time |-> t, SOC |-> Round2(newSOC), SOH |-> Round2(newSOH),
                    Load |-> Round2(useLoad), Temperature |-> Round2(newTemp),
                    CP |-> out.CP, GP |-> out.GP, mode |-> c.mode],
         energyPoint |-> [time |-> t,
                          energy |-> lastEnergyOf(c.energySeries) + deltaEnergy(useLoad)]]

----------------------------------------------------------------------------
(* The simpler variant (src/src/App.jsx), run side by side with the richer
   one: it receives the operation the richer variant has just performed.
   Its state is the record simple; [on |-> FALSE] when it is not run. *)

\* the module-level mfDefs of the simpler variant
simpleMfDefs == [defaultMFs EXCEPT !["Temperature"]["High"] = <<40, 70, 100>>]

SimpleOff == [on |-> FALSE]

SimpleStart ==
    [on |-> TRUE, soc |-> 50 * SCALE, soh |-> 100 * SCALE, load |-> 50 * SCALE,
     temp |-> 25 * SCALE, time |-> 0, series |-> <<>>, mode |-> "deep",
     running |-> FALSE, socHist |-> <<50 * SCALE>>, sohHist |-> <<100 * SCALE>>,
     loadHist |-> <<50 * SCALE>>, tempHist |-> <<25 * SCALE>>, timer |-> NoTimer]

\* what the stepOnce of a render of state s closes over
SimpleRender(s) ==
    [active |-> TRUE, time |-> s.time, soc |-> s.soc, soh |-> s.soh, load |-> s.load,
     temp |-> s.temp, mode |-> s.mode, socHist |-> s.socHist, sohHist |-> s.sohHist,
     loadHist |-> s.loadHist, tempHist |-> s.tempHist]

SimpleDeps(s) == <<s.running, s.soc, s.soh, s.load, s.temp, s.mode>>

\* s2 after the render that follows s, the effect re-run when a dependency changed
SimpleEffect(s, s2) ==
    [s2 EXCEPT !.timer = IF SimpleDeps(s2) = SimpleDeps(s) THEN s.timer
                         ELSE IF s2.running THEN SimpleRender(s2) ELSE NoTimer]

\* the interval of the simpler variant fires in state s
simpleStepOnce(s) ==
    IF ~s.timer.active THEN s
    ELSE
    LET c == s.timer
        t == c.time + 1
        deep == c.mode = "deep"
        useSOC == IF deep THEN predictSeries(c.socHist, 1)[1] ELSE c.soc
        useSOH == IF deep THEN predictSeries(c.sohHist, 1)[1] ELSE c.soh
        useTemp == IF deep THEN predictSeries(c.tempHist, 1)[1] ELSE c.temp
        useLoad == IF deep THEN predictSeries(c.loadHist, 1)[1] ELSE c.load
        inference == inferFuzzy(simpleMfDefs, useSOC, useSOH, useLoad, useTemp)
        batToLoad == RoundDiv(Max(0, useLoad - 100 * SCALE), 10)
        deltaSOC == RoundDiv((pvToBat * SCALE - batToLoad) * 90, batteryCapacityWh)
        newSOC == newSOCOf(c.soc, deltaSOC)
        newTemp == newTempOf(c.temp, useLoad)
        newSOH == newSOHOf(c.soh)
        point == [time |-> t, SOC |-> Round2(newSOC), SOH |-> Round2(newSOH),
                  Load |-> Round2(useLoad), Temperature |-> Round2(newTemp),
                  CP |-> inference.CP, GP |-> inference.GP, mode |-> c.mode]
    IN  SimpleEffect(s,
            [s EXCEPT !.time = t,
                      !.series = Append(Slice(@), point),
                      !.soc = newSOC,
                      !.temp = newTemp,
                      !.soh = newSOH,
                      !.socHist = Append(Slice(@), newSOC),
                      !.sohHist = Append(Slice(@), newSOH),
                      !.loadHist = Append(Slice(@), c.load),
                      !.tempHist = Append(Slice(@), newTemp)])

simpleResetSimulation(s) ==
    SimpleEffect(s,
        [s EXCEPT !.time = 0, !.series = <<>>, !.soc = 50 * SCALE, !.soh = 100 * SCALE,
                  !.load = 50 * SCALE, !.temp = 25 * SCALE,
                  !.socHist = <<50 * SCALE>>, !.sohHist = <<100 * SCALE>>,
                  !.loadHist = <<50 * SCALE>>, !.tempHist = <<25 * SCALE>>,
                  !.running = FALSE])

\* the simpler variant after the operation the richer variant performs in this
\* step: the same tick, the same control moved to the same value, the same
\* button; it has no membership-function inputs
simpleAfter ==
    IF ~simple.on THEN simple
    ELSE IF lastOp' = "tick" THEN simpleStepOnce(simple)
    ELSE IF lastOp' = "control"
    THEN SimpleEffect(simple,
            [simple EXCEPT !.soc = IF soc' # soc THEN soc' ELSE @,
                           !.soh = IF soh' # soh THEN soh' ELSE @,
                           !.load = IF load' # load THEN load' ELSE @,
                           !.temp = IF temp' # temp THEN temp' ELSE @,
                           !.mode = mode'])
    ELSE IF lastOp' = "toggle"
    THEN SimpleEffect(simple, [simple EXCEPT !.running = ~@])
    ELSE IF lastOp' = "reset" THEN simpleResetSimulation(simple)
    ELSE simple

SimInit ==
    /\ soc = 50 * SCALE
    /\ soh = 100 * SCALE
    /\ load = 50 * SCALE
    /\ temp = 25 * SCALE
    /\ time = 0
    /\ series = <<>>
    /\ mode = "deep"
    /\ running = FALSE
    /\ socHist = <<50 * SCALE>>
    /\ sohHist = <<100 * SCALE>>
    /\ loadHist = <<50 * SCALE>>
    /\ tempHist = <<25 * SCALE>>
    /\ mfDefs = defaultMFs
    /\ energySeries = <<>>
    /\ timer = NoTimer
    /\ intervals = 0
    /\ ticks = 0
    /\ edits = [sliders |-> 0, mfs |-> 0]
    /\ lastOp = "init"
    /\ simple = SimpleOff

\* the interval fires: the stepOnce of the render the timer was set in runs,
\* its state updates are applied in one batch, then the effect is re-examined
TickUpTo(bound) ==
    /\ timer.active
    /\ ticks < bound
    /\ \E r \in {stepOnce(timer)} :
           /\ time' = r.t
           /\ series' = Append(Slice(series), r.point)
           /\ soc' = r.newSOC
           /\ temp' = r.newTemp
           /\ soh' = r.newSOH
           /\ socHist' = Append(Slice(socHist), r.newSOC)
           /\ sohHist' = Append(Slice(sohHist), r.newSOH)
           /\ loadHist' = Append(Slice(loadHist), r.useLoad)
           /\ tempHist' = Append(Slice(tempHist), r.newTemp)
           /\ energySeries' = Append(Slice(energySeries), r.energyPoint)
    /\ ticks' = ticks + 1
    /\ UNCHANGED <<load, mode, running, mfDefs, edits>>
    /\ lastOp' = "tick"
    /\ UNCHANGED <<chartVars, genVars, inferVars, predVars>>
    /\ timer' = useEffect
    /\ intervals' = intervalsAfterEffect
    /\ simple' = simpleAfter

Tick == TickUpTo(MaxTicks)

SliderBudget == edits.sliders < MaxEdits

SetSoc ==
    /\ SliderBudget
    /\ \E v \in SOC_INPUTS : soc # v * SCALE /\ soc' = v * SCALE
    /\ edits' = [edits EXCEPT !.sliders = @ + 1]
    /\ UNCHANGED <<soh, load, temp, time, series, mode, running, socHist, sohHist,
                   loadHist, tempHist, mfDefs, energySeries, ticks>>
    /\ lastOp' = "control"
    /\ UNCHANGED <<chartVars, genVars, inferVars, predVars>>
    /\ timer' = useEffect
    /\ intervals' = intervalsAfterEffect
    /\ simple' = simpleAfter

SetSoh ==
    /\ SliderBudget
    /\ \E v \in SOH_INPUTS : soh # v * SCALE /\ soh' = v * SCALE
    /\ edits' = [edits EXCEPT !.sliders = @ + 1]
    /\ UNCHANGED <<soc, load, temp, time, series, mode, running, socHist, sohHist,
                   loadHist, tempHist, mfDefs, energySeries, ticks>>
    /\ lastOp' = "control"
    /\ UNCHANGED <<chartVars, genVars, inferVars, predVars>>
    /\ timer' = useEffect
    /\ intervals' = intervalsAfterEffect
    /\ simple' = simpleAfter

SetLoad ==
    /\ SliderBudget
    /\ \E v \in LOAD_INPUTS : load # v * SCALE /\ load' = v * SCALE
    /\ edits' = [edits EXCEPT !.sliders = @ + 1]
    /\ UNCHANGED <<soc, soh, temp, time, series, mode, running, socHist, sohHist,
                   loadHist, tempHist, mfDefs, energySeries, ticks>>
    /\ lastOp' = "control"
    /\ UNCHANGED <<chartVars, genVars, inferVars, predVars>>
    /\ timer' = useEffect
    /\ intervals' = intervalsAfterEffect
    /\ simple' = simpleAfter

SetTemp ==
    /\ SliderBudget
    /\ \E v \in TEMP_INPUTS : temp # v * SCALE /\ temp' = v * SCALE
    /\ edits' = [edits EXCEPT !.sliders = @ + 1]
    /\ UNCHANGED <<soc, soh, load, time, series, mode, running, socHist, sohHist,
                   loadHist, tempHist, mfDefs, energySeries, ticks>>
    /\ lastOp' = "control"
    /\ UNCHANGED <<chartVars, genVars, inferVars, predVars>>
    /\ timer' = useEffect
    /\ intervals' = intervalsAfterEffect
    /\ simple' = simpleAfter

SetMode ==
    /\ SliderBudget
    /\ \E m \in MODES : mode # m /\ mode' = m
    /\ edits' = [edits EXCEPT !.sliders = @ + 1]
    /\ UNCHANGED <<soc, soh, load, temp, time, series, running, socHist, sohHist,
                   loadHist, tempHist, mfDefs, energySeries, ticks>>
    /\ lastOp' = "control"
    /\ UNCHANGED <<chartVars, genVars, inferVars, predVars>>
    /\ timer' = useEffect
    /\ intervals' = intervalsAfterEffect
    /\ simple' = simpleAfter

\* the Start / Pause button: setRunning((r) => !r)
ToggleRunning ==
    /\ running' = ~running
    /\ UNCHANGED <<soc, soh, load, temp, time, series, mode, socHist, sohHist,
                   loadHist, tempHist, mfDefs, energySeries, ticks, edits>>
    /\ lastOp' = "toggle"
    /\ UNCHANGED <<chartVars, genVars, inferVars, predVars>>
    /\ timer' = useEffect
    /\ intervals' = intervalsAfterEffect
    /\ simple' = simpleAfter

updateMF ==
    /\ edits.mfs < MaxMFEdits
    /\ \E e \in MF_EDITS :
          /\ mfDefs[e[1]][e[2]][e[3] + 1] # e[4]
          /\ mfDefs' = [mfDefs EXCEPT ![e[1]][e[2]][e[3] + 1] = e[4]]
    /\ edits' = [edits EXCEPT !.mfs = @ + 1]
    /\ UNCHANGED <<soc, soh, load, temp, time, series, mode, running, socHist, sohHist,
                   loadHist, tempHist, energySeries, ticks>>
    /\ lastOp' = "updateMF"
    /\ UNCHANGED <<chartVars, genVars, inferVars, predVars>>
    /\ timer' = useEffect
    /\ intervals' = intervalsAfterEffect
    /\ simple' = simpleAfter

resetSimulationKeepsLoadHist ==
    /\ time' = 0
    /\ series' = <<>>
    /\ soc' = 50 * SCALE
    /\ soh' = 100 * SCALE
    /\ load' = 50 * SCALE
    /\ temp' = 25 * SCALE
    /\ socHist' = <<50 * SCALE>>
    /\ sohHist' = <<100 * SCALE>>
    /\ tempHist' = <<25 * SCALE>>
    /\ running' = FALSE
    /\ UNCHANGED <<loadHist, mode, mfDefs, energySeries, ticks, edits>>
    /\ lastOp' = "reset"
    /\ UNCHANGED <<chartVars, genVars, inferVars, predVars>>
    /\ timer' = useEffect
    /\ intervals' = intervalsAfterEffect
    /\ simple' = simpleAfter

resetSimulation ==
    /\ time' = 0
    /\ series' = <<>>
    /\ soc' = 50 * SCALE
    /\ soh' = 100 * SCALE
    /\ load' = 50 * SCALE
    /\ temp' = 25 * SCALE
    /\ socHist' = <<50 * SCALE>>
    /\ sohHist' = <<100 * SCALE>>
    /\ loadHist' = <<50 * SCALE>>
    /\ tempHist' = <<25 * SCALE>>
    /\ running' = FALSE
    /\ UNCHANGED <<mode, mfDefs, energySeries, ticks, edits>>
    /\ lastOp' = "reset"
    /\ UNCHANGED <<chartVars, genVars, inferVars, predVars>>
    /\ timer' = useEffect
    /\ intervals' = intervalsAfterEffect
    /\ simple' = simpleAfter

----------------------------------------------------------------------------
(* MFChart: the data loop for (x = 0; x <= 100; x += 1), for one term *)

\* control points the charted triple is drawn from (whole units)
MF_POINTS == {0, 30, 60, 100}
CHART_LAST_X == 100

ChartInit ==
    /\ chartDef \in MF_POINTS \X MF_POINTS \X MF_POINTS
    /\ chartX = 0
    /\ chartData = <<>>

ChartPoint ==
    /\ chartX <= CHART_LAST_X
    /\ chartData' = Append(chartData,
           [x |-> chartX,
            degree |-> triMF(chartX * SCALE, chartDef[1], chartDef[2], chartDef[3])])
    /\ chartX' = chartX + 1
    /\ UNCHANGED chartDef
    /\ UNCHANGED <<simVars, genVars, inferVars, predVars>>

----------------------------------------------------------------------------
(* Rule base generation, one statement group at a time *)

GenInit ==
    /\ idx = LoopStart
    /\ id = 1
    /\ cons = [CP |-> "Medium", GP |-> "Medium"]
    /\ rules = <<>>
    /\ pc = "baseline"

GenBaseline ==
    /\ pc = "baseline"
    /\ cons' = Baseline(Antecedent(idx).SOC)
    /\ pc' = "soh"
    /\ UNCHANGED <<idx, id, rules>>
    /\ UNCHANGED <<simVars, chartVars, inferVars, predVars>>

GenSOH ==
    /\ pc = "soh"
    /\ cons' = AdjustSOH(Antecedent(idx).SOH, cons)
    /\ pc' = "load"
    /\ UNCHANGED <<idx, id, rules>>
    /\ UNCHANGED <<simVars, chartVars, inferVars, predVars>>

GenLoad ==
    /\ pc = "load"
    /\ cons' = AdjustLoad(Antecedent(idx).Load, cons)
    /\ pc' = "temp"
    /\ UNCHANGED <<idx, id, rules>>
    /\ UNCHANGED <<simVars, chartVars, inferVars, predVars>>

GenTemp ==
    /\ pc = "temp"
    /\ cons' = AdjustTemp(Antecedent(idx).Temp, cons)
    /\ pc' = "push"
    /\ UNCHANGED <<idx, id, rules>>
    /\ UNCHANGED <<simVars, chartVars, inferVars, predVars>>

\* rules.push({id: id++, ...}), then the loop increments
GenPush ==
    /\ pc = "push"
    /\ rules' = Append(rules, MakeRule(id, idx, cons))
    /\ id' = id + 1
    /\ idx' = LoopNext(idx)
    /\ cons' = [CP |-> "Medium", GP |-> "Medium"]
    /\ pc' = IF LoopDone(idx') THEN "done" ELSE "baseline"
    /\ UNCHANGED <<simVars, chartVars, inferVars, predVars>>

----------------------------------------------------------------------------
(* One call of inferFuzzy *)

\* crisp inputs the call is drawn from (whole units)
INFER_SOC == {0, 50, 55, 85, 100}
INFER_SOH == {40, 55, 100}
INFER_LOAD == {0, 35, 50, 100}
INFER_TEMP == {0, 25, 42, 100}

EditedMFs == {[defaultMFs EXCEPT ![e[1]][e[2]][e[3] + 1] = e[4]] : e \in MF_EDITS}

InferInit ==
    /\ inferIn \in [SOC : INFER_SOC, SOH : INFER_SOH, Load : INFER_LOAD,
                    Temp : INFER_TEMP, defs : {defaultMFs} \cup EditedMFs]
    /\ inferOut = [done |-> FALSE]

Infer ==
    /\ ~inferOut.done
    /\ \E r \in {inferFuzzy(inferIn.defs, inferIn.SOC * SCALE, inferIn.SOH * SCALE,
                            inferIn.Load * SCALE, inferIn.Temp * SCALE)} :
          inferOut' = [done |-> TRUE, CP |-> r.CP, GP |-> r.GP]
    /\ UNCHANGED inferIn
    /\ UNCHANGED <<simVars, chartVars, genVars, predVars>>

----------------------------------------------------------------------------
(* One call of predictSeries *)

MaxHistLen == 3
MaxSteps == 2
\* history values the call is drawn from (whole units)
PRED_VALUES == {-25, 0, 50, 125}

Histories == UNION {[1..n -> {v * SCALE : v \in PRED_VALUES}] : n \in 0..MaxHistLen}

PredInit ==
    /\ predIn \in [history : Histories, steps : 1..MaxSteps]
    /\ predOut = [done |-> FALSE]

Predict ==
    /\ ~predOut.done
    /\ predOut' = [done |-> TRUE, out |-> predictSeries(predIn.history, predIn.steps)]
    /\ UNCHANGED predIn
    /\ UNCHANGED <<simVars, chartVars, genVars, inferVars>>

----------------------------------------------------------------------------
(* Values of the variables a specification does not use *)

ChartIdle == chartDef = <<0, 0, 0>> /\ chartX = 0 /\ chartData = <<>>
GenIdle ==
    /\ idx = LoopStart
    /\ id = 1
    /\ cons = [CP |-> "Medium", GP |-> "Medium"]
    /\ rules = <<>>
    /\ pc = "idle"
InferIdle ==
    /\ inferIn = [SOC |-> 50, SOH |-> 100, Load |-> 50, Temp |-> 25, defs |-> defaultMFs]
    /\ inferOut = [done |-> FALSE]
PredIdle == predIn = [history |-> <<>>, steps |-> 1] /\ predOut = [done |-> FALSE]

Init == SimInit /\ ChartIdle /\ GenIdle /\ InferIdle /\ PredIdle

Next ==
    \/ Tick
    \/ SetSoc
    \/ SetSoh
    \/ SetLoad
    \/ SetTemp
    \/ SetMode
    \/ ToggleRunning
    \/ updateMF
    \/ resetSimulation

Spec == Init /\ [][Next]_vars

\* both variants side by side
SimBothInit ==
    /\ soc = 50 * SCALE
    /\ soh = 100 * SCALE
    /\ load = 50 * SCALE
    /\ temp = 25 * SCALE
    /\ time = 0
    /\ series = <<>>
    /\ mode = "deep"
    /\ running = FALSE
    /\ socHist = <<50 * SCALE>>
    /\ sohHist = <<100 * SCALE>>
    /\ loadHist = <<50 * SCALE>>
    /\ tempHist = <<25 * SCALE>>
    /\ mfDefs = defaultMFs
    /\ energySeries = <<>>
    /\ timer = NoTimer
    /\ intervals = 0
    /\ ticks = 0
    /\ edits = [sliders |-> 0, mfs |-> 0]
    /\ lastOp = "init"
    /\ simple = SimpleStart
InitVariants == SimBothInit /\ ChartIdle /\ GenIdle /\ InferIdle /\ PredIdle
SpecVariants == InitVariants /\ [][Next]_vars

InitChart == SimInit /\ ChartInit /\ GenIdle /\ InferIdle /\ PredIdle
SpecChart == InitChart /\ [][ChartPoint]_vars

InitRules == SimInit /\ ChartIdle /\ GenInit /\ InferIdle /\ PredIdle
NextRules == GenBaseline \/ GenSOH \/ GenLoad \/ GenTemp \/ GenPush
SpecRules == InitRules /\ [][NextRules]_vars

InitInfer == SimInit /\ ChartIdle /\ GenIdle /\ InferInit /\ PredIdle
SpecInfer == InitInfer /\ [][Infer]_vars

InitPredict == SimInit /\ ChartIdle /\ GenIdle /\ InferIdle /\ PredInit
SpecPredict == InitPredict /\ [][Predict]_vars

----------------------------------------------------------------------------
(* Long runs: Start pressed once after the mode and the Load slider were set,
   the controls and Reset touched only after LongEditAt ticks *)

LongTicks == 205
LongEditAt == 100
LONG_LOADS == {0, 50, 100}

InitLong ==
    /\ soc = 50 * SCALE
    /\ soh = 100 * SCALE
    /\ load \in {v * SCALE : v \in LONG_LOADS}
    /\ temp = 25 * SCALE
    /\ time = 0
    /\ series = <<>>
    /\ mode \in MODES
    /\ running = TRUE
    /\ socHist = <<50 * SCALE>>
    /\ sohHist = <<100 * SCALE>>
    /\ loadHist = <<50 * SCALE>>
    /\ tempHist = <<25 * SCALE>>
    /\ mfDefs = defaultMFs
    /\ energySeries = <<>>
    /\ timer = Render
    /\ intervals = 1
    /\ ticks = 0
    /\ edits = [sliders |-> 0, mfs |-> 0]
    /\ lastOp = "toggle"
    /\ simple = SimpleOff
    /\ ChartIdle /\ GenIdle /\ InferIdle /\ PredIdle

TickLong == TickUpTo(LongTicks)
SetLoadLong == ticks = LongEditAt /\ SetLoad
SetModeLong == ticks = LongEditAt /\ SetMode
SetSohLong == ticks = LongEditAt /\ SetSoh

\* Reset pressed after LongEditAt ticks, then Start again
ResetLong == ticks = LongEditAt /\ running /\ resetSimulation
StartLong == lastOp = "reset" /\ ToggleRunning

NextLong == TickLong \/ SetLoadLong \/ SetModeLong \/ SetSohLong \/ ResetLong \/ StartLong
SpecLong == InitLong /\ [][NextLong]_vars

----------------------------------------------------------------------------
(* Properties *)

Last(q) == q[Len(q)]

Defaults ==
    /\ soc = 50 * SCALE
    /\ soh = 100 * SCALE
    /\ load = 50 * SCALE
    /\ temp = 25 * SCALE
    /\ time = 0
    /\ socHist = <<50 * SCALE>>
    /\ sohHist = <<100 * SCALE>>
    /\ loadHist = <<50 * SCALE>>
    /\ tempHist = <<25 * SCALE>>
    /\ series = <<>>

\* C1: after any number of ticks, in either mode and with any control
\* settings, resetSimulation leaves SOC = 50, SOH = 100, Load = 50,
\* Temperature = 25, time = 0, the four histories [50], [100], [50], [25] and
\* the output series empty.
C1_ResetRestoresDefaults == lastOp = "reset" => Defaults

\* C1 witness: a reset that follows two ticks and a moved control.
C1_ResetAfterTicks ==
    lastOp = "reset" /\ ticks >= 2 /\ edits.sliders >= 1 /\ Defaults

\* C2: reset reinitialises the energy series to empty, so the first tick after
\* a reset emits an EnergyPoint whose cumulative energy is that tick's
\* increment alone.
C2_ResetClearsEnergySeries ==
    /\ lastOp = "reset" => energySeries = <<>>
    /\ (lastOp = "tick" /\ Len(series) = 1)
          => Last(energySeries).energy = deltaEnergy(Last(loadHist))

InRange(v, lo, hi) == lo <= v /\ v <= hi

\* C3: from the defaults, after any sequence of ticks (199 and more, in either
\* mode, whatever the Load slider), every committed state and every emitted
\* HistoryPoint has SOC, Load and Temperature in [0,100] and SOH in [40,100].
C3_RangesHold ==
    /\ InRange(soc, 0, 100 * SCALE)
    /\ InRange(load, 0, 100 * SCALE)
    /\ InRange(temp, 0, 100 * SCALE)
    /\ InRange(soh, 40 * SCALE, 100 * SCALE)
    /\ \A n \in 1..Len(series) :
          /\ InRange(series[n].SOC, 0, 100 * CENTI)
          /\ InRange(series[n].Load, 0, 100 * CENTI)
          /\ InRange(series[n].Temperature, 0, 100 * CENTI)
          /\ InRange(series[n].SOH, 40 * CENTI, 100 * CENTI)

\* C3 witness: the state committed by the 199th tick or a later one, SOC
\* held at its upper clamp.
C3_LongRun ==
    lastOp = "tick" /\ time >= 199 /\ Len(series) >= 199 /\ soc = 100 * SCALE

\* C4: each EnergyPoint appended by a tick has a cumulative energy that is at
\* least that of the point appended before it, and equal to it plus
\* (200 + max(0, effectiveLoad/100*5000 - 1000)) / 3600000.
C4_EnergyIncrement ==
    [][ticks' = ticks + 1 =>
          /\ Last(energySeries').energy >= lastEnergyOf(energySeries)
          /\ Last(energySeries').energy
                = lastEnergyOf(energySeries) + deltaEnergy(Last(loadHist'))]_vars

DefaultCall ==
    inferIn = [SOC |-> 50, SOH |-> 100, Load |-> 50, Temp |-> 25, defs |-> defaultMFs]

Near(v, target, tol) == target - tol <= v /\ v <= target + tol

\* C5 as stated: infer(50, 100, 50, 25) with the default membership
\* definitions returns CP and GP in [0,100], each approximately 50 (here:
\* within 5 of 50).
C5_DefaultInferenceNear50 ==
    (inferOut.done /\ DefaultCall) =>
        /\ InRange(inferOut.CP, 0, 100 * CENTI)
        /\ InRange(inferOut.GP, 0, 100 * CENTI)
        /\ Near(inferOut.CP, 50 * CENTI, 5 * CENTI)
        /\ Near(inferOut.GP, 50 * CENTI, 5 * CENTI)

\* C5 amended: infer(50, 100, 50, 25) with the default membership definitions
\* returns CP = 25 and GP = 75, both in [0,100]: SOC = 50 has degree 0 in
\* Medium (whose support starts at 50, peak at 75) and 1/6 in Low, so the only
\* rule that fires is Low/Good/Medium/Normal with consequent CP Low, GP High.
C5_DefaultInference ==
    (inferOut.done /\ DefaultCall) =>
        /\ InRange(inferOut.CP, 0, 100 * CENTI)
        /\ InRange(inferOut.GP, 0, 100 * CENTI)
        /\ inferOut.CP = 25 * CENTI
        /\ inferOut.GP = 75 * CENTI
        /\ fuzzifyInput(defaultMFs, "SOC", 50 * SCALE)
              = [Low |-> Ratio(10, 60), Medium |-> 0, High |-> 0]

\* C5 witness: the call with the default inputs has returned.
C5_DefaultCallDone == inferOut.done /\ DefaultCall /\ inferOut.CP = 25 * CENTI

\* C6: the generator returns exactly 81 rules, their ids the integers 1..81 in
\* generation order, enumerating SOC x SOH x Load x Temperature with SOC
\* outermost and Temperature innermost (so every combination appears exactly
\* once); rule 1 has antecedent Low / Degraded / Low / Low.
C6_RuleBaseOrder ==
    /\ \A n \in 1..Len(rules) : rules[n].id = n
    /\ pc = "done" =>
          /\ Len(rules) = 81
          /\ rules[1].antecedent
                = [SOC |-> "Low", SOH |-> "Degraded", Load |-> "Low", Temp |-> "Low"]
          /\ \A s \in 1..3, q \in 1..3, l \in 1..3, t \in 1..3 :
                rules[27 * (s - 1) + 9 * (q - 1) + 3 * (l - 1) + t].antecedent
                   = [SOC |-> SOC_TERMS[s], SOH |-> SOH_TERMS[q],
                      Load |-> LOAD_TERMS[l], Temp |-> TEMP_TERMS[t]]
          /\ \A m, n \in 1..Len(rules) :
                rules[m].antecedent = rules[n].antecedent => m = n
          /\ rules = RULE_BASE

\* C6 witness: the loops have ended with 81 rules pushed.
C6_Generated == pc = "done" /\ Len(rules) = 81 /\ rules[81].id = 81

Level(term) == IF term = "Low" THEN 1 ELSE IF term = "Medium" THEN 2 ELSE 3

Triggers(a) ==
    (IF a.SOH = "Degraded" THEN 1 ELSE 0) + (IF a.Load = "High" THEN 1 ELSE 0)
      + (IF a.Temp = "High" THEN 1 ELSE 0)

\* C7: every rule's consequent is the SOC baseline (Low -> CP Low, GP High;
\* Medium -> Medium, Medium; High -> CP High, GP Low) with CP stepped down and
\* GP stepped up once per matching trigger among SOH = Degraded, Load = High,
\* Temperature = High, cumulatively, clamped at Low (CP) and High (GP); rule 1
\* has CP = Low, GP = High.
C7_Consequents ==
    pc = "done" =>
        /\ \A n \in 1..Len(rules) :
              LET a == rules[n].antecedent
              IN  /\ Level(rules[n].consequent.CP)
                        = Max(1, Level(a.SOC) - Triggers(a))
                  /\ Level(rules[n].consequent.GP)
                        = Min(3, 4 - Level(a.SOC) + Triggers(a))
                  /\ rules[n].consequent.CP \in {"Low", "Medium", "High"}
                  /\ rules[n].consequent.GP \in {"Low", "Medium", "High"}
        /\ rules[1].consequent = [CP |-> "Low", GP |-> "High"]

\* C7 witness: the finished rule base holds a rule stepped down three times
\* (High / Degraded / High / High, clamped to CP Low, GP High).
C7_TripleStepDown ==
    /\ pc = "done"
    /\ \E n \in 1..Len(rules) :
          /\ rules[n].antecedent
                = [SOC |-> "High", SOH |-> "Degraded", Load |-> "High", Temp |-> "High"]
          /\ rules[n].consequent = [CP |-> "Low", GP |-> "High"]

ChartA == chartDef[1]
ChartB == chartDef[2]
ChartC == chartDef[3]

\* C8: for a proper triangle a < b < c the degree is 0 for every x outside
\* [a,c] and at x = a and x = c, and exactly 1 at x = b; for every triple with
\* a <= b <= c the degree lies in [0,1] (and no division by zero occurs: a
\* division by zero would stop the evaluation).
C8_TriangleShape ==
    \A n \in 1..Len(chartData) :
        LET p == chartData[n]
        IN  /\ (ChartA <= ChartB /\ ChartB <= ChartC) => InRange(p.degree, 0, DEG)
            /\ (ChartA < ChartB /\ ChartB < ChartC) =>
                  /\ (p.x <= ChartA \/ p.x >= ChartC) => p.degree = 0
                  /\ p.x = ChartB => p.degree = DEG

\* C8 witness: the finished chart of the proper triangle (30, 60, 100): 0 left
\* of a, at a and at c, 1 at the peak, strictly between 0 and 1 elsewhere.
C8_TriangleCharted ==
    /\ chartDef = <<30, 60, 100>>
    /\ Len(chartData) = CHART_LAST_X + 1
    /\ chartData[1].degree = 0
    /\ chartData[31].degree = 0
    /\ chartData[61].degree = DEG
    /\ chartData[101].degree = 0
    /\ chartData[46].degree = DEG \div 2

ShoulderShape ==
    \A n \in 1..Len(chartData) :
        /\ chartData[n].x = ChartA => chartData[n].degree = DEG
        /\ chartData[n].x = ChartC => chartData[n].degree = 0
        /\ \A m \in 1..n :
              (ChartA <= chartData[m].x /\ chartData[n].x <= ChartC)
                 => chartData[m].degree >= chartData[n].degree

\* C9 as stated: for every left-shoulder triple (a = b, a <= c) the degree is
\* 1 at x = a, 0 at x = c, and non-increasing in x between a and c.
C9_LeftShoulderIncludingPoint ==
    (ChartA = ChartB /\ ChartA <= ChartC) => ShoulderShape

\* C9 amended: for every left-shoulder triple with a = b and a < c the degree
\* is 1 at x = a, 0 at x = c, and non-increasing in x between a and c; for
\* a = b = c the degree at x = a = c is 1 (x <= a is tested first) and 0 for
\* every x > c.
C9_LeftShoulder ==
    /\ (ChartA = ChartB /\ ChartA < ChartC) => ShoulderShape
    /\ (ChartA = ChartB /\ ChartA = ChartC) =>
          \A n \in 1..Len(chartData) :
              chartData[n].degree = IF chartData[n].x <= ChartA THEN DEG ELSE 0

\* C9 witness: the finished chart of the left shoulder (30, 30, 100), with a
\* point strictly inside the slope.
C9_ShoulderCharted ==
    /\ chartDef = <<30, 30, 100>>
    /\ Len(chartData) = CHART_LAST_X + 1
    /\ chartData[31].degree = DEG
    /\ chartData[66].degree = DEG \div 2
    /\ chartData[101].degree = 0

Clamp100(v) == Max(0, Min(100 * SCALE, v))

RECURSIVE Pow(_, _)
Pow(b, e) == IF e = 0 THEN 1 ELSE b * Pow(b, e - 1)

\* 5^(n-1) times the value the smoothing loop ends with on h, n = Len(h) >= 1:
\* the newest element seeds it (weight 0.8^(n-1)) and the i-th oldest is
\* blended in with weight 0.2 * 0.8^(i-1)
RECURSIVE WeightedSum(_, _)
WeightedSum(h, i) ==
    LET n == Len(h)
    IN  IF i = n THEN Pow(4, n - 1) * h[n]
        ELSE Pow(4, i - 1) * Pow(5, n - 1 - i) * h[i] + WeightedSum(h, i + 1)

\* C10: for an empty history the forecaster returns 50 for each requested
\* step; for a single-element history [v] it returns v clamped to [0,100]; for
\* any history and horizon n it returns n copies of one value in [0,100], the
\* clamped result of seeding with the newest element and blending the older
\* ones in back to front with weight 0.2.
C10_Forecast ==
    predOut.done =>
        LET h == predIn.history
            n == Len(h)
            out == predOut.out
        IN  /\ Len(out) = predIn.steps
            /\ \A k \in 1..Len(out) :
                  /\ InRange(out[k], 0, 100 * SCALE)
                  /\ out[k] = out[1]
                  /\ n = 0 => out[k] = 50 * SCALE
                  /\ n = 1 => out[k] = Clamp100(h[1])
                  /\ n >= 1 =>
                        /\ WeightedSum(h, 1) % Pow(5, n - 1) = 0
                        /\ out[k] = Clamp100(WeightedSum(h, 1) \div Pow(5, n - 1))

\* C10 witness: predict([0, 50, 50], 2) has returned [40, 40]
\* (0.2 * 0 + 0.8 * (0.2 * 50 + 0.8 * 50)).
C10_ForecastDone ==
    /\ predOut.done
    /\ predIn = [history |-> <<0, 50 * SCALE, 50 * SCALE>>, steps |-> 2]
    /\ predOut.out = <<40 * SCALE, 40 * SCALE>>

SumOf3(f) == f[1] + f[2] + f[3]

\* the degrees of the four crisp inputs of the call in inferIn
InferDegrees ==
    [fSOC |-> fuzzifyInput(inferIn.defs, "SOC", inferIn.SOC * SCALE),
     fSOH |-> fuzzifyInput(inferIn.defs, "SOH", inferIn.SOH * SCALE),
     fLoad |-> fuzzifyInput(inferIn.defs, "Load", inferIn.Load * SCALE),
     fTemp |-> fuzzifyInput(inferIn.defs, "Temperature", inferIn.Temp * SCALE)]

\* the sum, over the rules whose firing strength (the minimum of the four
\* antecedent degrees) is positive, of firing strength times g[rule number]
FiredTotal(f, g) ==
    SumOf3([s \in 1..3 |-> SumOf3([q \in 1..3 |-> SumOf3([l \in 1..3 |->
    SumOf3([t \in 1..3 |->
        LET w == Min(Min(f.fSOC[SOC_TERMS[s]], f.fSOH[SOH_TERMS[q]]),
                     Min(f.fLoad[LOAD_TERMS[l]], f.fTemp[TEMP_TERMS[t]]))
        IN  IF w > 0 THEN w * g[27 * (s - 1) + 9 * (q - 1) + 3 * (l - 1) + t]
            ELSE 0])])])])

FiredWeight == FiredTotal(InferDegrees, [n \in 1..81 |-> 1])

\* C11: when no rule has positive firing strength inferFuzzy returns CP = 50
\* and GP = 50; when at least one rule fires, CP and GP are the firing-weighted
\* averages of the centroids Low 25, Medium 50, High 75 over exactly the rules
\* with positive firing strength, the minimum of the four antecedent degrees.
C11_FallbackAndWeightedAverage ==
    inferOut.done =>
        /\ FiredWeight = 0 => (inferOut.CP = 50 * CENTI /\ inferOut.GP = 50 * CENTI)
        /\ FiredWeight > 0 =>
              /\ inferOut.CP = RoundDiv(CENTI * FiredTotal(InferDegrees,
                    [n \in 1..81 |-> OUTPUT_CENTROIDS[RULE_BASE[n].consequent.CP]]),
                    FiredWeight)
              /\ inferOut.GP = RoundDiv(CENTI * FiredTotal(InferDegrees,
                    [n \in 1..81 |-> OUTPUT_CENTROIDS[RULE_BASE[n].consequent.GP]]),
                    FiredWeight)

\* C11 witness: SOC = 50 with the SOC Low term edited to (0, 0, 50) has degree
\* 0 in every SOC term, no rule fires, and the call has returned 50 / 50.
C11_NoRuleFired ==
    /\ inferOut.done
    /\ inferIn.SOC = 50
    /\ inferIn.defs["SOC"]["Low"] = <<0, 0, 50>>
    /\ FiredWeight = 0
    /\ inferOut.CP = 50 * CENTI
    /\ inferOut.GP = 50 * CENTI

\* C12: every tick fired by the interval computes from the state committed by
\* the previous tick and advances time by exactly 1: the stepOnce that runs
\* belongs to the current render (it reads the histories and the energy
\* series as the previous tick left them), and the HistoryPoint and the
\* EnergyPoint it emits carry the committed time plus 1, also when the tick
\* leaves SOC, SOH and Temperature unchanged.
C12_TickFromCommittedState ==
    [][ticks' = ticks + 1 =>
          /\ timer = Render
          /\ time' = time + 1
          /\ Last(series').time = time + 1
          /\ Last(energySeries').time = time + 1]_vars

\* b2 is b with one element appended at the end, the oldest element (and only
\* it) evicted when b already held 200 elements
AppendedWithin200(b, b2) ==
    /\ Len(b2) <= 200
    /\ LET kept == IF Len(b) = 200 THEN Tail(b) ELSE b
       IN  /\ Len(b2) = Len(kept) + 1
           /\ SubSeq(b2, 1, Len(kept)) = kept

\* C13: after any sequence of ticks and resets the output series, the energy
\* series and the four history buffers hold at most 200 elements; each tick
\* appends exactly one element at the end of each of them, and a buffer that
\* already holds 200 elements loses its oldest element, and only that one,
\* the order of the others preserved.
C13_BuffersBounded ==
    [][/\ Len(series') <= 200 /\ Len(energySeries') <= 200
       /\ Len(socHist') <= 200 /\ Len(sohHist') <= 200
       /\ Len(loadHist') <= 200 /\ Len(tempHist') <= 200
       /\ ticks' = ticks + 1 =>
             /\ AppendedWithin200(series, series')
             /\ AppendedWithin200(energySeries, energySeries')
             /\ AppendedWithin200(socHist, socHist')
             /\ AppendedWithin200(sohHist, sohHist')
             /\ AppendedWithin200(loadHist, loadHist')
             /\ AppendedWithin200(tempHist, tempHist')]_vars

\* C13 witness: more than 200 ticks without a reset: every buffer is full and
\* the oldest points have been evicted.
C13_Evicted ==
    /\ lastOp = "tick" /\ time > 200
    /\ Len(series) = 200 /\ Len(energySeries) = 200
    /\ Len(socHist) = 200 /\ Len(loadHist) = 200
    /\ series[1].time = time - 199
    /\ energySeries[1].time = time - 199

\* the inference of the tick the timer is about to run: its effective inputs
\* and the CP / GP inferFuzzy returned for them
TickInference == stepOnce(timer).inference

AfterTemp(i) ==
    IF i.Temp > 60 * SCALE
    THEN [CP |-> Max(i.CP - 10 * CENTI, 20 * CENTI), GP |-> Min(i.GP + 10 * CENTI, 80 * CENTI)]
    ELSE [CP |-> i.CP, GP |-> i.GP]

AfterSOH(i) ==
    IF i.SOH < 50 * SCALE
    THEN [CP |-> Max(AfterTemp(i).CP - 15 * CENTI, 15 * CENTI),
          GP |-> Min(AfterTemp(i).GP + 15 * CENTI, 85 * CENTI)]
    ELSE AfterTemp(i)

AfterLoad(i) ==
    IF i.Load > 80 * SCALE
    THEN [CP |-> Min(AfterSOH(i).CP + 10 * CENTI, 75 * CENTI), GP |-> AfterSOH(i).GP]
    ELSE AfterSOH(i)

\* C14: the CP / GP a tick emits are the inference outputs transformed by the
\* three overrides in the order Temperature, SOH, Load on the effective
\* inputs: effectiveTemp > 60 gives CP = max(CP - 10, 20), GP = min(GP + 10,
\* 80); then effectiveSOH < 50 gives CP = max(CP - 15, 15), GP = min(GP + 15,
\* 85); then effectiveLoad > 80 gives CP = min(CP + 10, 75); when none of the
\* conditions holds they are the inference outputs themselves.
C14_OverridesInOrder ==
    [][ticks' = ticks + 1 =>
          \E i \in {TickInference} :
              /\ Last(series').CP = AfterLoad(i).CP
              /\ Last(series').GP = AfterLoad(i).GP
              /\ (i.Temp <= 60 * SCALE /\ i.SOH >= 50 * SCALE /\ i.Load <= 80 * SCALE)
                    => (Last(series').CP = i.CP /\ Last(series').GP = i.GP)]_vars

\* C14 witness: a conventional-mode tick with Load = 100 and Temperature = 100
\* from SOC = 50, SOH = 100: the inference gives 25 / 75, the Temperature
\* override 20 / 80, the Load override 30 / 80.
C14_TempThenLoad ==
    /\ lastOp = "tick"
    /\ Last(series).mode = "conventional"
    /\ Last(series).Load = 100 * CENTI
    /\ Last(series).Temperature = 100 * CENTI
    /\ Last(series).SOH >= 50 * CENTI
    /\ Last(series).CP = 30 * CENTI
    /\ Last(series).GP = 80 * CENTI

\* every (variable, term, index) of the membership definitions, index 1-based
MFEntries ==
    {<<v, t, k>> : v \in {"SOC"}, t \in {"Low", "Medium", "High"}, k \in 1..3}
      \cup {<<v, t, k>> : v \in {"SOH"}, t \in {"Degraded", "Normal", "Good"}, k \in 1..3}
      \cup {<<v, t, k>> : v \in {"Load"}, t \in {"Low", "Medium", "High"}, k \in 1..3}
      \cup {<<v, t, k>> : v \in {"Temperature"}, t \in {"Low", "Normal", "High"}, k \in 1..3}

\* C15: an updateMF edit made between two ticks is visible to the very next
\* inference: every tick runs with the definitions as they stand, and the tick
\* that follows an edit infers from the definitions as edited (not from cached
\* or snapshotted ones); and the edit changes only the
\* addressed (variable, term, index) entry, every other definition and the
\* simulation state unchanged.
C15_EditVisibleToNextTick ==
    [][/\ ticks' = ticks + 1 =>
             /\ timer.mfDefs = mfDefs
             /\ lastOp = "updateMF" =>
                   \E i \in {TickInference} :
                       \E o \in {inferFuzzy(mfDefs, i.SOC, i.SOH, i.Load, i.Temp)} :
                           i.CP = o.CP /\ i.GP = o.GP
       /\ lastOp' = "updateMF" =>
             /\ Cardinality({e \in MFEntries :
                   mfDefs'[e[1]][e[2]][e[3]] # mfDefs[e[1]][e[2]][e[3]]}) = 1
             /\ DOMAIN mfDefs' = DOMAIN mfDefs
             /\ \A v \in DOMAIN mfDefs : DOMAIN mfDefs'[v] = DOMAIN mfDefs[v]
             /\ UNCHANGED <<soc, soh, load, temp, time, series, mode, running,
                            socHist, sohHist, loadHist, tempHist, energySeries>>]_vars

\* C15 witness: the first tick ran with the default definitions (SOC 50 is Low
\* only, CP 25); then the SOC Low term was edited to (0, 0, 50) while the timer
\* was running; the second tick, on the forecast SOC 50.89, found Low at
\* degree 0 and Medium alone firing, CP 50.
C15_EditBetweenTicks ==
    /\ lastOp = "tick" /\ ticks = 2 /\ edits.mfs = 1 /\ edits.sliders = 0
    /\ mfDefs["SOC"]["Low"] = <<0, 0, 50>>
    /\ Len(series) = 2
    /\ series[1].CP = 25 * CENTI
    /\ series[2].time = 2
    /\ series[2].CP = 50 * CENTI

\* C16: Pause and reset take effect between ticks: once running is false (by
\* Pause or by reset) no interval is left and no tick runs until Start is
\* pressed again (only the Start / Pause button sets running to true); a tick
\* commits its updates to the state, the histories and the two series all
\* together, and outside a tick they change only by a reset; at most one
\* interval is active at any time.
C16_PauseAndResetBetweenTicks ==
    [][/\ intervals' <= 1
       /\ timer'.active <=> intervals' = 1
       /\ ~running' => (intervals' = 0 /\ ~timer'.active)
       /\ (running' /\ ~running) => lastOp' = "toggle"
       /\ ticks' = ticks + 1 =>
             /\ running /\ intervals = 1 /\ lastOp' = "tick"
             /\ Len(series') = Len(Slice(series)) + 1
             /\ Len(energySeries') = Len(Slice(energySeries)) + 1
             /\ Len(socHist') = Len(Slice(socHist)) + 1
             /\ Len(sohHist') = Len(Slice(sohHist)) + 1
             /\ Len(loadHist') = Len(Slice(loadHist)) + 1
             /\ Len(tempHist') = Len(Slice(tempHist)) + 1
             /\ Last(series').time = time' /\ Last(energySeries').time = time'
             /\ Last(socHist') = soc' /\ Last(sohHist') = soh' /\ Last(tempHist') = temp'
       /\ ticks' = ticks =>
             \/ UNCHANGED <<time, series, energySeries, socHist, sohHist, loadHist, tempHist>>
             \/ lastOp' = "reset"]_vars

\* C16 witness: Pause pressed after at least one tick: running is false and no
\* interval is left.
C16_Paused ==
    lastOp = "toggle" /\ ~running /\ ticks >= 1 /\ intervals = 0 /\ ~timer.active

\* C17: run side by side from the default state with the same ticks, mode
\* selections and slider settings, the simpler and the richer variant commit
\* the same SOC, SOH, Temperature and time and the same four history buffers
\* after every tick.
C17_VariantsAgree ==
    (simple.on /\ lastOp = "tick") =>
        /\ simple.soc = soc /\ simple.soh = soh /\ simple.temp = temp
        /\ simple.time = time
        /\ simple.socHist = socHist /\ simple.sohHist = sohHist
        /\ simple.loadHist = loadHist /\ simple.tempHist = tempHist

\* the accumulators of the call in inferIn when its rule loop has ended
InferAcc == Accumulate(InferDegrees, 1, Len(RULE_BASE))

\* C18: every rule's CP and GP consequents are mirror images on the scale
\* Low < Medium < High (CP Low iff GP High, CP Medium iff GP Medium, CP High
\* iff GP Low); consequently the crisp outputs satisfy CP + GP = 100 (the two
\* weighted sums add up to 100 times the common weight; the two quotients,
\* each rounded to the unit of the representation, to 100 within one unit)
\* and both lie in [25,75], for every input and every membership definition,
\* the 50 / 50 fallback included.
C18_MirroredOutputs ==
    /\ \A n \in 1..Len(RULE_BASE) :
          Level(RULE_BASE[n].consequent.CP) + Level(RULE_BASE[n].consequent.GP) = 4
    /\ inferOut.done =>
          /\ InferAcc.cpDenom = InferAcc.gpDenom
          /\ InferAcc.cpNumer + InferAcc.gpNumer = 100 * InferAcc.cpDenom
          /\ InRange(inferOut.CP, 25 * CENTI, 75 * CENTI)
          /\ InRange(inferOut.GP, 25 * CENTI, 75 * CENTI)
          /\ InRange(inferOut.CP + inferOut.GP, 100 * CENTI - 1, 100 * CENTI + 1)
          /\ InferAcc.cpDenom = 0 => inferOut.CP + inferOut.GP = 100 * CENTI

\* C18 witness: a call in which rules with different consequents fire
\* (SOC 55 is Low and Medium, SOH 55 Degraded and Normal, Load 35 Low and
\* Medium, Temperature 42 Normal and High): CP is strictly between 25 and 50.
C18_MixedRulesFired ==
    /\ inferOut.done
    /\ inferIn = [SOC |-> 55, SOH |-> 55, Load |-> 35, Temp |-> 42, defs |-> defaultMFs]
    /\ InferAcc.cpDenom > 0
    /\ inferOut.CP > 25 * CENTI /\ inferOut.CP < 50 * CENTI
    /\ inferOut.GP > 50 * CENTI /\ inferOut.GP < 75 * CENTI

\* the tick the timer is about to run, had the Load slider stood at v when the
\* timer was set, everything else the same
TickWithLoad(v) == stepOnce([timer EXCEPT !.load = v * SCALE])

\* C19: the Load slider value has no influence on a deep-mode tick: from the
\* same state, histories and series, the tick emits the same HistoryPoint and
\* EnergyPoint and commits the same state and history values whatever the
\* slider value; and as long as every tick since the default history [50] was
\* a deep-mode tick, the Load history holds only the forecast 50.
C19_LoadSliderIgnoredInDeepMode ==
    [][(ticks' = ticks + 1 /\ timer.mode = "deep") =>
          /\ \E r \in {TickWithLoad(0)} :
                /\ r = TickWithLoad(100)
                /\ Last(series') = r.point
                /\ Last(energySeries') = r.energyPoint
                /\ soc' = r.newSOC /\ soh' = r.newSOH /\ temp' = r.newTemp
                /\ time' = r.t
                /\ Last(loadHist') = r.useLoad
          /\ (\A n \in 1..Len(loadHist) : loadHist[n] = 50 * SCALE)
                => Last(loadHist') = 50 * SCALE]_vars

\* C19 witness: fifty deep-mode ticks and more with the Load slider at 100:
\* the Load history and the emitted Load are still 50.
C19_DeepRunWithLoad100 ==
    /\ lastOp = "tick" /\ ticks >= 50
    /\ mode = "deep" /\ load = 100 * SCALE
    /\ \A n \in 1..Len(series) : series[n].mode = "deep"
    /\ \A n \in 1..Len(loadHist) : loadHist[n] = 50 * SCALE
    /\ Last(series).Load = 50 * CENTI

\* 200 / 16200 * 100 * 0.9 in 1/SCALE units
FixedDeltaSOC == (200 * 90 * SCALE) \div 16200

\* C20: the effective load never exceeds 100, so every tick raises SOC by the
\* same fixed positive amount 200/16200*100*0.9 until it is clamped: with no
\* SOC slider edits, in either mode and for every Load setting, SOC is
\* non-decreasing from tick to tick, has reached 100 by the 45th tick after the
\* defaults (start or reset), and stays at 100 on every later tick.
C20_SocClimbsTo100 ==
    [][ticks' = ticks + 1 =>
          /\ Last(loadHist') <= 100 * SCALE
          /\ FixedDeltaSOC > 0
          /\ soc' >= soc
          /\ soc' = Min(100 * SCALE, soc + FixedDeltaSOC)
          /\ soc = 100 * SCALE => soc' = 100 * SCALE
          /\ time' >= 45 => soc' = 100 * SCALE]_vars

\* C20 witness: the 45th tick from the defaults has brought SOC to 100, the
\* 44th had left it below.
C20_ReachedAt45 ==
    /\ lastOp = "tick" /\ time = 45 /\ Len(series) = 45
    /\ soc = 100 * SCALE
    /\ series[44].SOC < 100 * CENTI
    /\ series[45].SOC = 100 * CENTI

====
